---- MODULE Spec2Model ----
(***************************************************************************)
(* FreshKeep backend: the authenticated API of server.py (users, pantry    *)
(* items, shopping list, bearer tokens), the legacy in-memory shopping     *)
(* list of routers/shopping_list.py and the recipe selector of             *)
(* routers/recipes.py.                                                     *)
(*                                                                         *)
(* Spec        requests served one at a time, each handler one action.     *)
(* SpecC       requests of server.py interleaved at their await points.    *)
(* SpecLegacy  the legacy list, its handlers run by pool threads.          *)
(* SpecRecipe  generate_recipe applied to bounded ingredient lists.        *)
(*                                                                         *)
(* Conventions.  A MongoDB collection is the sequence of its documents in  *)
(* insertion (natural) order.  str(uuid.uuid4()) is the next value of a    *)
(* counter: an opaque identifier never issued before.  Time is counted in  *)
(* days.  An Optional field of a request body is <<>> for None (omitted or *)
(* null: pydantic's .dict() gives None for both) and <<v>> for a value v.  *)
(* A handler is an operator from the state and the request to its outcome  *)
(* (status code, detail, body and the collections afterwards); the action  *)
(* of the handler installs that outcome.                                   *)
(***************************************************************************)
EXTENDS Integers, Sequences, FiniteSets, TLC

VARIABLES users, pantry_items, shopping_list, nextUuid, now, instants,
          reqs, temp_shopping_db, threads, request, response

vars == <<users, pantry_items, shopping_list, nextUuid, now, instants,
          reqs, temp_shopping_db, threads, request, response>>

dbvars == <<users, pantry_items, shopping_list>>

\* the state of the other programs and of the interleaved requests
others == <<reqs, temp_shopping_db, threads, request, response>>

(* ------------------------------ bounds -------------------------------- *)

\* uuid4 values drawn in one behaviour (users + pantry items + shopping items)
MaxUuid == 4
\* advances of the clock in one behaviour
MaxTicks == 1

(* ------------------------- program constants -------------------------- *)

ACCESS_TOKEN_EXPIRE_DAYS == 30
SECRET_KEY == "freshkeep-secret-key-change-in-production"

None == <<>>
Some(v) == <<v>>

(* --------------------------- input domains ---------------------------- *)

Emails == {"ann@example.com", "bob@example.com"}
Passwords == {"pw-one", "pw-two"}
\* days the clock may jump by: up to a token's expiry instant, and past it
TickDays == {ACCESS_TOKEN_EXPIRE_DAYS, ACCESS_TOKEN_EXPIRE_DAYS + 1}

\* PantryItemCreate bodies
PantryCreates ==
    { [name |-> "milk", category |-> "dairy", expiry_date |-> "2026-11-09",
       quantity |-> 1, barcode |-> None] }

\* PantryItemUpdate bodies (after .dict(): every field present, None or a value)
NoPantryPatch ==
    [name |-> None, category |-> None, expiry_date |-> None,
     quantity |-> None, status |-> None, barcode |-> None]
PantryPatches ==
    { NoPantryPatch,
      [NoPantryPatch EXCEPT !.status = Some("consumed")],
      [NoPantryPatch EXCEPT !.status = Some("wasted"), !.name = Some("oat milk")],
      [NoPantryPatch EXCEPT !.status = Some("fresh"), !.category = Some("frozen"),
                            !.expiry_date = Some("2027-01-01"),
                            !.quantity = Some(0), !.barcode = Some("0123")] }

\* ShoppingItemCreate bodies
ShoppingCreates == { [item_name |-> "bread"] }

\* ShoppingItemUpdate bodies
NoShoppingPatch == [item_name |-> None, is_purchased |-> None]
ShoppingPatches ==
    { NoShoppingPatch,
      [NoShoppingPatch EXCEPT !.is_purchased = Some(TRUE)],
      [NoShoppingPatch EXCEPT !.item_name = Some("rye bread"),
                              !.is_purchased = Some(FALSE)] }

(* ----------------------- the document store --------------------------- *)

\* a document matches a query document when it has each of its fields
Satisfies(doc, query) ==
    \A f \in DOMAIN query : f \in DOMAIN doc /\ doc[f] = query[f]

\* indices of the documents of coll that match
Matching(coll, query) == { i \in 1..Len(coll) : Satisfies(coll[i], query) }

Min(S) == CHOOSE i \in S : \A j \in S : i <= j

\* find_one: <<>> when nothing matches, else <<first matching document>>
find_one(coll, query) ==
    IF Matching(coll, query) = {} THEN None
    ELSE Some(coll[Min(Matching(coll, query))])

\* find(...).to_list(): the matching documents in natural order
find(coll, query) ==
    LET Test(d) == Satisfies(d, query) IN SelectSeq(coll, Test)

insert_one(coll, doc) == Append(coll, doc)

\* {"$set": upd} applied to one document
SetFields(doc, upd) ==
    [f \in DOMAIN doc \cup DOMAIN upd |-> IF f \in DOMAIN upd THEN upd[f] ELSE doc[f]]

\* update_one: $set on the first matching document, nothing when none matches
update_one(coll, query, upd) ==
    IF Matching(coll, query) = {} THEN coll
    ELSE [coll EXCEPT ![Min(Matching(coll, query))] = SetFields(@, upd)]

RemoveAt(coll, i) == SubSeq(coll, 1, i - 1) \o SubSeq(coll, i + 1, Len(coll))

\* delete_one: the collection afterwards and deleted_count
delete_one(coll, query) ==
    IF Matching(coll, query) = {} THEN [coll |-> coll, deleted_count |-> 0]
    ELSE [coll |-> RemoveAt(coll, Min(Matching(coll, query))), deleted_count |-> 1]

NotMatching(coll, query) ==
    LET Keep(d) == ~Satisfies(d, query) IN SelectSeq(coll, Keep)

\* delete_many: the collection afterwards and deleted_count
delete_many(coll, query) ==
    [coll |-> NotMatching(coll, query),
     deleted_count |-> Cardinality(Matching(coll, query))]

Range(s) == { s[i] : i \in 1..Len(s) }

(* -------------------------- helper functions -------------------------- *)

\* pwd_context.hash: one-way; the digest stands for the password it came from
\* (bcrypt's random salt changes the digest's text, not which password verifies)
hash_password(password) == <<"bcrypt", password>>

verify_password(plain_password, hashed_password) ==
    hashed_password = <<"bcrypt", plain_password>>

\* the slip of signing with a key that is not the one jwt.decode verifies with
create_access_token_with_other_key(user_id, utcnow) ==
    [sub |-> user_id, exp |-> utcnow + ACCESS_TOKEN_EXPIRE_DAYS, key |-> "another-secret"]

\* jwt.encode({"sub": user_id, "exp": utcnow + 30 days}, SECRET_KEY)
create_access_token_at(user_id, utcnow) ==
    [sub |-> user_id, exp |-> utcnow + ACCESS_TOKEN_EXPIRE_DAYS, key |-> SECRET_KEY]

\* create_access_token, called at the present instant
create_access_token(user_id) == create_access_token_at(user_id, now)

NoToken == [sub |-> 0, exp |-> 0, key |-> ""]

\* the tokens the service has or could have issued so far: one at the user's
\* registration, one for a login at any instant since (login changes nothing
\* in the store, so it is open to the user at every instant)
Issued ==
    UNION { { create_access_token_at(users[i].id, t) :
                t \in { x \in instants : x >= users[i].created_at } } :
            i \in 1..Len(users) }

\* what a client can put in the Authorization header: a token the service
\* issued, or claims of an existing user signed with a key that is not SECRET_KEY
ForgedKey == "some-other-key"
Forged ==
    { [sub |-> users[i].id, exp |-> users[i].created_at + ACCESS_TOKEN_EXPIRE_DAYS,
       key |-> ForgedKey] : i \in 1..Len(users) }
Credentials == Issued \cup Forged

\* the slip of decoding with options={"verify_exp": False}
jwt_decode_without_exp(token) ==
    IF token.key # SECRET_KEY THEN {"InvalidTokenError"} ELSE {"payload"}

\* jwt.decode: the signature is verified first, then exp.  At the expiry
\* instant itself (exp = now) the library's version decides (< or <=), so
\* both outcomes are possible.
jwt_decode(token) ==
    IF token.key # SECRET_KEY THEN {"InvalidTokenError"}
    ELSE IF token.exp < now THEN {"ExpiredSignatureError"}
    ELSE IF token.exp = now THEN {"ExpiredSignatureError", "payload"}
    ELSE {"payload"}

\* get_current_user: the possible outcomes [code, detail, user]
get_current_user(token) ==
    { IF d = "ExpiredSignatureError"
        THEN [code |-> 401, detail |-> "Token expired", user |-> None]
      ELSE IF d = "InvalidTokenError"
        THEN [code |-> 401, detail |-> "Invalid token", user |-> None]
      ELSE IF token.sub = 0
        THEN [code |-> 401, detail |-> "Invalid token", user |-> None]
      ELSE LET ById == [id |-> token.sub]
               user == find_one(users, ById)
           IN  IF user = None
                 THEN [code |-> 401, detail |-> "User not found", user |-> None]
                 ELSE [code |-> 200, detail |-> "", user |-> user]
      : d \in jwt_decode(token) }

UserResponse(user) ==
    [id |-> user.id, email |-> user.email, is_premium |-> user.is_premium,
     created_at |-> user.created_at]

\* the slip "if v" for "if v is not None": 0 and False are dropped as well
UpdateDataIfTruthy(item_update) ==
    [k \in { f \in DOMAIN item_update :
               /\ item_update[f] # None
               /\ ~(f = "quantity" /\ item_update[f] = Some(0))
               /\ ~(f = "is_purchased" /\ item_update[f] = Some(FALSE)) }
       |-> item_update[k][1]]

\* update_data = {k: v for k, v in item_update.dict().items() if v is not None}
UpdateData(item_update) ==
    [k \in { f \in DOMAIN item_update : item_update[f] # None } |-> item_update[k][1]]

\* the slip of testing for "consumed" alone
MarksConsumedOnly(item_update) ==
    /\ item_update.status # None
    /\ item_update.status[1] = "consumed"

\* item_update.status in ["consumed", "wasted"]
MarksUsedUp(item_update) ==
    /\ item_update.status # None
    /\ item_update.status[1] \in {"consumed", "wasted"}

(* ----------------------------- documents ------------------------------ *)

NewUser(user_id, email, password) ==
    [id |-> user_id, email |-> email, password_hash |-> hash_password(password),
     is_premium |-> FALSE, created_at |-> now]

NewPantryItem(item_id, user_id, item) ==
    [id |-> item_id, user_id |-> user_id, name |-> item.name,
     category |-> item.category, expiry_date |-> item.expiry_date,
     quantity |-> item.quantity, barcode |-> item.barcode, status |-> "fresh",
     created_at |-> now]

NewShoppingItem(item_id, user_id, item_name) ==
    [id |-> item_id, user_id |-> user_id, item_name |-> item_name,
     is_purchased |-> FALSE, created_at |-> now]

PantryItemResponse(item) ==
    [id |-> item.id, user_id |-> item.user_id, name |-> item.name,
     category |-> item.category, expiry_date |-> item.expiry_date,
     quantity |-> item.quantity, barcode |-> item.barcode, status |-> item.status,
     created_at |-> item.created_at]

ShoppingItemResponse(item) ==
    [id |-> item.id, user_id |-> item.user_id, item_name |-> item.item_name,
     is_purchased |-> item.is_purchased, created_at |-> item.created_at]

PantryItemResponses(items) == [i \in 1..Len(items) |-> PantryItemResponse(items[i])]

ShoppingItemResponses(items) == [i \in 1..Len(items) |-> ShoppingItemResponse(items[i])]

(* ------------------------------ outcomes ------------------------------ *)

\* The outcome of a request: the response (code, detail, body, and for the
\* auth routes access_token, for clear_purchased the count in the message),
\* the three collections afterwards and the number of uuid4 values drawn.
Returns(body) ==
    [code |-> 200, detail |-> "", body |-> body, access_token |-> NoToken,
     count |-> 0, users |-> users, pantry_items |-> pantry_items,
     shopping_list |-> shopping_list, uuids |-> 0]

\* raise HTTPException(status_code=code, detail=detail) before any write
HTTPException(code, detail) ==
    [Returns(<<>>) EXCEPT !.code = code, !.detail = detail]

\* PantryItemResponse(**None) / ShoppingItemResponse(**None): a TypeError,
\* which the framework answers with 500
TypeError(out) == [out EXCEPT !.code = 500, !.detail = "Internal Server Error",
                              !.body = <<>>]

(* ----------------------------- auth routes ---------------------------- *)

\* the slip of inserting without the lookup
register_without_lookup(email, password) ==
    LET user_id == nextUuid
        user == NewUser(user_id, email, password)
    IN  [Returns(<<UserResponse(user)>>) EXCEPT
            !.users = insert_one(users, user),
            !.uuids = 1,
            !.access_token = create_access_token(user_id)]

register(email, password) ==
    LET ByEmail == [email |-> email]
        existing_user == find_one(users, ByEmail)
        user_id == nextUuid
        user == NewUser(user_id, email, password)
    IN  IF existing_user # None
          THEN HTTPException(400, "Email already registered")
          ELSE [Returns(<<UserResponse(user)>>) EXCEPT
                  !.users = insert_one(users, user),
                  !.uuids = 1,
                  !.access_token = create_access_token(user_id)]

login(email, password) ==
    LET ByEmail == [email |-> email]
        user == find_one(users, ByEmail)
    IN  IF user = None \/ ~verify_password(password, user[1].password_hash)
          THEN HTTPException(401, "Invalid email or password")
          ELSE [Returns(<<UserResponse(user[1])>>) EXCEPT
                  !.access_token = create_access_token(user[1].id)]

get_me(current_user) == Returns(<<UserResponse(current_user)>>)

\* the slip of flipping the flag instead of setting it
upgrade_to_premium_toggling(current_user) ==
    LET ById == [id |-> current_user.id]
        after == update_one(users, ById, [is_premium |-> ~current_user.is_premium])
        updated_user == find_one(after, ById)
    IN  [Returns(<<UserResponse(updated_user[1])>>) EXCEPT !.users = after]

upgrade_to_premium(current_user) ==
    LET ById == [id |-> current_user.id]
        after == update_one(users, ById, [is_premium |-> TRUE])
        updated_user == find_one(after, ById)
    IN  [Returns(<<UserResponse(updated_user[1])>>) EXCEPT !.users = after]

(* ---------------------------- pantry routes --------------------------- *)

get_pantry_items(current_user) ==
    LET Mine == [user_id |-> current_user.id]
    IN  Returns(PantryItemResponses(find(pantry_items, Mine)))

\* the slip of storing the new item's id where the owner's id belongs
create_pantry_item_without_owner(current_user, item) ==
    LET pantry_item == NewPantryItem(nextUuid, nextUuid, item)
    IN  [Returns(<<PantryItemResponse(pantry_item)>>) EXCEPT
            !.pantry_items = insert_one(pantry_items, pantry_item),
            !.uuids = 1]

create_pantry_item(current_user, item) ==
    LET pantry_item == NewPantryItem(nextUuid, current_user.id, item)
    IN  [Returns(<<PantryItemResponse(pantry_item)>>) EXCEPT
            !.pantry_items = insert_one(pantry_items, pantry_item),
            !.uuids = 1]

\* the slip of looking the item up by id alone, without the owner in the filter
update_pantry_item_of_anyone(current_user, item_id, item_update) ==
    LET ById == [id |-> item_id]
        existing == find_one(pantry_items, ById)
        update_data == UpdateData(item_update)
        shopping_item == NewShoppingItem(nextUuid, current_user.id, existing[1].name)
        after == IF DOMAIN update_data # {}
                   THEN update_one(pantry_items, ById, update_data)
                   ELSE pantry_items
        updated == find_one(after, ById)
        out == [Returns(<<>>) EXCEPT
                  !.shopping_list = IF MarksUsedUp(item_update)
                                      THEN insert_one(shopping_list, shopping_item)
                                      ELSE shopping_list,
                  !.uuids = IF MarksUsedUp(item_update) THEN 1 ELSE 0,
                  !.pantry_items = after]
    IN  IF existing = None THEN HTTPException(404, "Item not found")
        ELSE [out EXCEPT !.body = <<PantryItemResponse(updated[1])>>]

update_pantry_item(current_user, item_id, item_update) ==
    LET Owned == [id |-> item_id, user_id |-> current_user.id]
        ById == [id |-> item_id]
        existing == find_one(pantry_items, Owned)
        update_data == UpdateData(item_update)
        shopping_item == NewShoppingItem(nextUuid, current_user.id, existing[1].name)
        after == IF DOMAIN update_data # {}
                   THEN update_one(pantry_items, ById, update_data)
                   ELSE pantry_items
        updated == find_one(after, ById)
        out == [Returns(<<>>) EXCEPT
                  !.shopping_list = IF MarksUsedUp(item_update)
                                      THEN insert_one(shopping_list, shopping_item)
                                      ELSE shopping_list,
                  !.uuids = IF MarksUsedUp(item_update) THEN 1 ELSE 0,
                  !.pantry_items = after]
    IN  IF existing = None THEN HTTPException(404, "Item not found")
        ELSE IF updated = None THEN TypeError(out)
        ELSE [out EXCEPT !.body = <<PantryItemResponse(updated[1])>>]

\* the slip of cascading: the caller's shopping items named as the item go too
delete_pantry_item_cascading(current_user, item_id) ==
    LET Owned == [id |-> item_id, user_id |-> current_user.id]
        existing == find_one(pantry_items, Owned)
        result == delete_one(pantry_items, Owned)
    IN  IF result.deleted_count = 0 THEN HTTPException(404, "Item not found")
        ELSE [Returns(<<>>) EXCEPT
                !.detail = "Item deleted successfully",
                !.pantry_items = result.coll,
                !.shopping_list =
                    delete_many(shopping_list,
                                [user_id |-> current_user.id,
                                 item_name |-> existing[1].name]).coll]

delete_pantry_item(current_user, item_id) ==
    LET Owned == [id |-> item_id, user_id |-> current_user.id]
        result == delete_one(pantry_items, Owned)
    IN  IF result.deleted_count = 0 THEN HTTPException(404, "Item not found")
        ELSE [Returns(<<>>) EXCEPT !.detail = "Item deleted successfully",
                                   !.pantry_items = result.coll]

(* ------------------------ shopping list routes ------------------------ *)

get_shopping_list(current_user) ==
    LET Mine == [user_id |-> current_user.id]
    IN  Returns(ShoppingItemResponses(find(shopping_list, Mine)))

create_shopping_item(current_user, item) ==
    LET shopping_item == NewShoppingItem(nextUuid, current_user.id, item.item_name)
    IN  [Returns(<<ShoppingItemResponse(shopping_item)>>) EXCEPT
            !.shopping_list = insert_one(shopping_list, shopping_item),
            !.uuids = 1]

update_shopping_item(current_user, item_id, item_update) ==
    LET Owned == [id |-> item_id, user_id |-> current_user.id]
        ById == [id |-> item_id]
        existing == find_one(shopping_list, Owned)
        update_data == UpdateData(item_update)
        after == IF DOMAIN update_data # {}
                   THEN update_one(shopping_list, ById, update_data)
                   ELSE shopping_list
        updated == find_one(after, ById)
        out == [Returns(<<>>) EXCEPT !.shopping_list = after]
    IN  IF existing = None THEN HTTPException(404, "Item not found")
        ELSE IF updated = None THEN TypeError(out)
        ELSE [out EXCEPT !.body = <<ShoppingItemResponse(updated[1])>>]

\* the slip of deleting by id alone, without the owner in the filter
delete_shopping_item_by_id(current_user, item_id) ==
    LET ById == [id |-> item_id]
        result == delete_one(shopping_list, ById)
    IN  IF result.deleted_count = 0 THEN HTTPException(404, "Item not found")
        ELSE [Returns(<<>>) EXCEPT !.detail = "Item deleted successfully",
                                   !.shopping_list = result.coll]

delete_shopping_item(current_user, item_id) ==
    LET Owned == [id |-> item_id, user_id |-> current_user.id]
        result == delete_one(shopping_list, Owned)
    IN  IF result.deleted_count = 0 THEN HTTPException(404, "Item not found")
        ELSE [Returns(<<>>) EXCEPT !.detail = "Item deleted successfully",
                                   !.shopping_list = result.coll]

\* the slip of leaving the owner out of the delete_many filter
clear_purchased_items_of_all(current_user) ==
    LET Purchased == [is_purchased |-> TRUE]
        result == delete_many(shopping_list, Purchased)
    IN  [Returns(<<>>) EXCEPT !.count = result.deleted_count,
                              !.shopping_list = result.coll]

clear_purchased_items(current_user) ==
    LET Purchased == [user_id |-> current_user.id, is_purchased |-> TRUE]
        result == delete_many(shopping_list, Purchased)
    IN  [Returns(<<>>) EXCEPT !.count = result.deleted_count,
                              !.shopping_list = result.coll]

(* ------------------------------- routes ------------------------------- *)

\* Depends(get_current_user) raised: the handler body does not run
Denied(auth) == HTTPException(auth.code, auth.detail)

\* The possible outcomes of each request of the API: for a protected route,
\* the dependency get_current_user first, then the handler with its user.
POST_auth_register(email, password) == { register(email, password) }

POST_auth_login(email, password) == { login(email, password) }

GET_auth_me(token) ==
    { IF auth.code # 200 THEN Denied(auth) ELSE get_me(auth.user[1])
      : auth \in get_current_user(token) }

POST_user_upgrade_premium(token) ==
    { IF auth.code # 200 THEN Denied(auth) ELSE upgrade_to_premium(auth.user[1])
      : auth \in get_current_user(token) }

GET_pantry(token) ==
    { IF auth.code # 200 THEN Denied(auth) ELSE get_pantry_items(auth.user[1])
      : auth \in get_current_user(token) }

POST_pantry(token, item) ==
    { IF auth.code # 200 THEN Denied(auth) ELSE create_pantry_item(auth.user[1], item)
      : auth \in get_current_user(token) }

PUT_pantry(token, item_id, item_update) ==
    { IF auth.code # 200 THEN Denied(auth)
      ELSE update_pantry_item(auth.user[1], item_id, item_update)
      : auth \in get_current_user(token) }

DELETE_pantry(token, item_id) ==
    { IF auth.code # 200 THEN Denied(auth)
      ELSE delete_pantry_item(auth.user[1], item_id)
      : auth \in get_current_user(token) }

GET_shopping(token) ==
    { IF auth.code # 200 THEN Denied(auth) ELSE get_shopping_list(auth.user[1])
      : auth \in get_current_user(token) }

POST_shopping(token, item) ==
    { IF auth.code # 200 THEN Denied(auth)
      ELSE create_shopping_item(auth.user[1], item)
      : auth \in get_current_user(token) }

PUT_shopping(token, item_id, item_update) ==
    { IF auth.code # 200 THEN Denied(auth)
      ELSE update_shopping_item(auth.user[1], item_id, item_update)
      : auth \in get_current_user(token) }

DELETE_shopping(token, item_id) ==
    { IF auth.code # 200 THEN Denied(auth)
      ELSE delete_shopping_item(auth.user[1], item_id)
      : auth \in get_current_user(token) }

DELETE_shopping_clear_purchased(token) ==
    { IF auth.code # 200 THEN Denied(auth)
      ELSE clear_purchased_items(auth.user[1])
      : auth \in get_current_user(token) }

(* ------------------ Spec: one request served at a time ---------------- *)

\* a request was served with outcome out: its writes are in the store (a
\* request that fails, or only reads, leaves every collection as it was)
Serve(out) ==
    /\ nextUuid + out.uuids <= MaxUuid + 1
    /\ users' = out.users
    /\ pantry_items' = out.pantry_items
    /\ shopping_list' = out.shopping_list
    /\ nextUuid' = nextUuid + out.uuids
    /\ UNCHANGED <<now, instants, others>>

\* identifiers a request may name for a collection: those of its documents
\* and one that is in no collection
ItemIds(coll) == { coll[i].id : i \in 1..Len(coll) } \cup {nextUuid}

Register ==
    \E email \in Emails, password \in Passwords :
       \E out \in POST_auth_register(email, password) : Serve(out)

Login ==
    \E email \in Emails, password \in Passwords :
       \E out \in POST_auth_login(email, password) : Serve(out)

GetMe == \E token \in Credentials : \E out \in GET_auth_me(token) : Serve(out)

UpgradeToPremium ==
    \E token \in Credentials : \E out \in POST_user_upgrade_premium(token) : Serve(out)

GetPantryItems == \E token \in Credentials : \E out \in GET_pantry(token) : Serve(out)

CreatePantryItem ==
    \E token \in Credentials, item \in PantryCreates :
       \E out \in POST_pantry(token, item) : Serve(out)

UpdatePantryItem ==
    \E token \in Credentials, item_id \in ItemIds(pantry_items),
       item_update \in PantryPatches :
       \E out \in PUT_pantry(token, item_id, item_update) : Serve(out)

DeletePantryItem ==
    \E token \in Credentials, item_id \in ItemIds(pantry_items) :
       \E out \in DELETE_pantry(token, item_id) : Serve(out)

GetShoppingList == \E token \in Credentials : \E out \in GET_shopping(token) : Serve(out)

CreateShoppingItem ==
    \E token \in Credentials, item \in ShoppingCreates :
       \E out \in POST_shopping(token, item) : Serve(out)

UpdateShoppingItem ==
    \E token \in Credentials, item_id \in ItemIds(shopping_list),
       item_update \in ShoppingPatches :
       \E out \in PUT_shopping(token, item_id, item_update) : Serve(out)

DeleteShoppingItem ==
    \E token \in Credentials, item_id \in ItemIds(shopping_list) :
       \E out \in DELETE_shopping(token, item_id) : Serve(out)

ClearPurchasedItems ==
    \E token \in Credentials :
       \E out \in DELETE_shopping_clear_purchased(token) : Serve(out)

\* time passes between two requests
Tick ==
    \E days \in TickDays :
       /\ Cardinality(instants) <= MaxTicks
       /\ now' = now + days
       /\ instants' = instants \cup {now + days}
       /\ UNCHANGED <<users, pantry_items, shopping_list, nextUuid, others>>

InitDb ==
    /\ users = <<>>
    /\ pantry_items = <<>>
    /\ shopping_list = <<>>
    /\ nextUuid = 1
    /\ now = 0
    /\ instants = {0}

InitOthers ==
    /\ reqs = <<>>
    /\ temp_shopping_db = <<>>
    /\ threads = <<>>
    /\ request = <<>>
    /\ response = <<>>

Init == InitDb /\ InitOthers

\* the pantry and shopping-list routes, for users who registered, within the
\* lifetime of their tokens
Next ==
    \/ Register
    \/ Login
    \/ GetPantryItems
    \/ CreatePantryItem
    \/ UpdatePantryItem
    \/ DeletePantryItem
    \/ GetShoppingList
    \/ CreateShoppingItem
    \/ UpdateShoppingItem
    \/ DeleteShoppingItem
    \/ ClearPurchasedItems

Spec == Init /\ [][Next]_vars

\* the auth and user routes, with a protected collection, over a span of time
\* in which tokens expire
NextT ==
    \/ Register
    \/ Login
    \/ GetMe
    \/ UpgradeToPremium
    \/ GetShoppingList
    \/ CreateShoppingItem
    \/ DeleteShoppingItem
    \/ Tick

SpecT == Init /\ [][NextT]_vars

\* every route of the API but the clock: the auth and user routes together
\* with the pantry and shopping-list routes
NextAll ==
    \/ Next
    \/ GetMe
    \/ UpgradeToPremium

SpecAll == Init /\ [][NextAll]_vars

(* ------------------- properties of the sequential API ----------------- *)

Ids(coll) == { coll[i].id : i \in 1..Len(coll) }

\* the document of coll with this id (identifiers are unique in a collection)
Doc(coll, id) == coll[CHOOSE i \in 1..Len(coll) : coll[i].id = id]

\* the collection grew by exactly one document, at its end
GainedOne(before, after) ==
    /\ Len(after) = Len(before) + 1
    /\ SubSeq(after, 1, Len(before)) = before

\* C1: a successful update_pantry_item whose patch status is "consumed" or
\* "wasted" adds exactly one shopping-list item, owned by the caller, not
\* purchased, named as the pantry item was before the patch (also when the
\* patch renames it or repeats the status it already has); with any other
\* status, or none, it adds nothing to the shopping list.
C1_UsedUpAddsOneShoppingItem ==
    \A token \in Credentials, item_id \in ItemIds(pantry_items),
       item_update \in PantryPatches :
       \A out \in PUT_pantry(token, item_id, item_update) :
          out.code = 200 =>
             IF \/ item_update.status = Some("consumed")
                \/ item_update.status = Some("wasted")
               THEN /\ GainedOne(shopping_list, out.shopping_list)
                    /\ LET new == out.shopping_list[Len(out.shopping_list)]
                       IN  /\ new.id \notin Ids(shopping_list)
                           /\ new.user_id = token.sub
                           /\ new.is_purchased = FALSE
                           /\ new.item_name = Doc(pantry_items, item_id).name
               ELSE out.shopping_list = shopping_list

\* C1 happened twice for one item: it was renamed by the patch that marked it
\* wasted, marked again, and the list holds its old and its new name
C1_Witness ==
    \E i \in 1..Len(pantry_items), j, k \in 1..Len(shopping_list) :
       /\ pantry_items[i].name = "oat milk"
       /\ pantry_items[i].status \in {"consumed", "wasted"}
       /\ j < k
       /\ shopping_list[j].item_name = "milk"
       /\ shopping_list[k].item_name = "oat milk"
       /\ shopping_list[j].user_id = pantry_items[i].user_id
       /\ shopping_list[k].user_id = pantry_items[i].user_id
       /\ ~shopping_list[j].is_purchased /\ ~shopping_list[k].is_purchased

\* C2: nothing of user A reaches user B.  A list result holds only documents
\* of the caller, and an update or delete of another user's pantry or
\* shopping item is answered 404 and leaves every collection as it was.
C2_OwnershipIsolation ==
    \A token \in Issued :
       /\ \A out \in GET_pantry(token) \cup GET_shopping(token) :
             \A n \in 1..Len(out.body) : out.body[n].user_id = token.sub
       /\ \A i \in 1..Len(pantry_items) :
             pantry_items[i].user_id # token.sub =>
                \A out \in DELETE_pantry(token, pantry_items[i].id) \cup
                           UNION { PUT_pantry(token, pantry_items[i].id, item_update) :
                                      item_update \in PantryPatches } :
                   /\ out.code = 404
                   /\ out.pantry_items = pantry_items
                   /\ out.shopping_list = shopping_list
       /\ \A i \in 1..Len(shopping_list) :
             shopping_list[i].user_id # token.sub =>
                \A out \in DELETE_shopping(token, shopping_list[i].id) \cup
                           UNION { PUT_shopping(token, shopping_list[i].id, item_update) :
                                      item_update \in ShoppingPatches } :
                   /\ out.code = 404
                   /\ out.pantry_items = pantry_items
                   /\ out.shopping_list = shopping_list

\* two users, one holding a valid token while the other owns a pantry item
\* and a shopping item
C2_Witness ==
    \E token \in Issued, i \in 1..Len(pantry_items), j \in 1..Len(shopping_list) :
       /\ pantry_items[i].user_id # token.sub
       /\ shopping_list[j].user_id = pantry_items[i].user_id
       /\ \E out \in DELETE_shopping(token, shopping_list[j].id) : out.code = 404

\* the document after a patch: the fields the patch gives a value have that
\* value, every other field is as before
Patched(before, after, item_update) ==
    /\ DOMAIN after = DOMAIN before
    /\ \A f \in DOMAIN before :
          IF f \in DOMAIN item_update /\ item_update[f] # None
            THEN after[f] = item_update[f][1]
            ELSE after[f] = before[f]

\* coll changed in the document with this id, and in nothing else
OnlyPatched(before, after, id, item_update) ==
    /\ Len(after) = Len(before)
    /\ \A n \in 1..Len(before) :
          IF before[n].id = id
            THEN Patched(before[n], after[n], item_update)
            ELSE after[n] = before[n]

\* C10: a successful update_pantry_item or update_shopping_item sets the
\* fields its patch gives with a non-null value and no other: omitted and null
\* fields, id, user_id and created_at keep their values, every other document
\* of the collection and the users are unchanged, and the document returned is
\* the stored one.
C10_PartialUpdate ==
    \A token \in Credentials :
       /\ \A item_id \in ItemIds(pantry_items), item_update \in PantryPatches :
             \A out \in PUT_pantry(token, item_id, item_update) :
                out.code = 200 =>
                   /\ OnlyPatched(pantry_items, out.pantry_items, item_id, item_update)
                   /\ out.body = <<Doc(out.pantry_items, item_id)>>
                   /\ out.users = users
       /\ \A item_id \in ItemIds(shopping_list), item_update \in ShoppingPatches :
             \A out \in PUT_shopping(token, item_id, item_update) :
                out.code = 200 =>
                   /\ OnlyPatched(shopping_list, out.shopping_list, item_id, item_update)
                   /\ out.body = <<Doc(out.shopping_list, item_id)>>
                   /\ out.pantry_items = pantry_items
                   /\ out.users = users

\* a pantry item that took the patch with quantity 0 beside an untouched one,
\* and a shopping item that was purchased and then patched to is_purchased
\* false with a new name
C10_Witness ==
    /\ \E i, j \in 1..Len(pantry_items) :
          /\ pantry_items[i].quantity = 0 /\ pantry_items[i].barcode = "0123"
          /\ pantry_items[i].name = "milk"
          /\ pantry_items[j].quantity = 1 /\ pantry_items[j].barcode = None
    /\ \E k \in 1..Len(shopping_list) :
          /\ shopping_list[k].item_name = "rye bread"
          /\ shopping_list[k].is_purchased = FALSE

\* what clear_purchased_items must do for the caller of this token
ClearsPurchasedOf(token, out) ==
    LET Kept(d) == ~(d.user_id = token.sub /\ d.is_purchased)
        Gone(d) == d.user_id = token.sub /\ d.is_purchased
    IN  /\ out.code = 200
        /\ out.shopping_list = SelectSeq(shopping_list, Kept)
        /\ out.count = Len(SelectSeq(shopping_list, Gone))
        /\ out.pantry_items = pantry_items
        /\ out.users = users

C5_ClearsExactly ==
    \A token \in Issued :
       \A out \in DELETE_shopping_clear_purchased(token) : ClearsPurchasedOf(token, out)

\* a step that is clear_purchased_items for this token
ClearStep(token) ==
    \E out \in DELETE_shopping_clear_purchased(token) : out.code = 200 /\ Serve(out)

C5_SecondClearsNothing ==
    \A token \in Credentials :
       ClearStep(token) =>
          \A again \in DELETE_shopping_clear_purchased(token)' :
             /\ again.count = 0
             /\ again.shopping_list = shopping_list'

\* C5: clear_purchased deletes exactly the caller's purchased shopping items,
\* keeps every unpurchased item and every item of another user, and reports
\* the number deleted; called again right after by the same user it reports 0
\* and changes nothing.
C5_ClearPurchased == [] C5_ClearsExactly /\ [][C5_SecondClearsNothing]_vars

\* two users with a purchased item each: a clear by one reports 1 and leaves
\* the other's item (four identifiers are drawn by then)
C5_Witness ==
    \E token \in Issued, i, k \in 1..Len(shopping_list) :
       /\ shopping_list[i].user_id = token.sub /\ shopping_list[i].is_purchased
       /\ shopping_list[k].user_id # token.sub /\ shopping_list[k].is_purchased
       /\ \E out \in DELETE_shopping_clear_purchased(token) :
             out.count = 1 /\ Len(out.shopping_list) = Len(shopping_list) - 1

(* ---------------------- properties of the auth routes ----------------- *)

\* the outcomes of every protected route for this token
Protected(token) ==
    GET_auth_me(token) \cup POST_user_upgrade_premium(token) \cup GET_pantry(token)
    \cup UNION { POST_pantry(token, item) : item \in PantryCreates }
    \cup UNION { PUT_pantry(token, item_id, item_update) :
                   item_id \in ItemIds(pantry_items), item_update \in PantryPatches }
    \cup UNION { DELETE_pantry(token, item_id) : item_id \in ItemIds(pantry_items) }
    \cup GET_shopping(token)
    \cup UNION { POST_shopping(token, item) : item \in ShoppingCreates }
    \cup UNION { PUT_shopping(token, item_id, item_update) :
                   item_id \in ItemIds(shopping_list), item_update \in ShoppingPatches }
    \cup UNION { DELETE_shopping(token, item_id) : item_id \in ItemIds(shopping_list) }
    \cup DELETE_shopping_clear_purchased(token)

\* the request wrote nothing
NoWrite(out) ==
    /\ out.users = users
    /\ out.pantry_items = pantry_items
    /\ out.shopping_list = shopping_list
    /\ out.uuids = 0

\* C3: once an email is registered, a register with that email and any
\* password is answered 400 and writes nothing: no second user, the first
\* user's record (its password hash too) as it was.
C3_DuplicateEmailRejected ==
    \A i \in 1..Len(users), password \in Passwords :
       \A out \in POST_auth_register(users[i].email, password) :
          /\ out.code = 400
          /\ out.detail = "Email already registered"
          /\ NoWrite(out)

\* a user registered at an earlier instant, and a register with this email and
\* another password answered 400
C3_Witness ==
    \E i \in 1..Len(users), password \in Passwords :
       /\ users[i].created_at < now
       /\ ~verify_password(password, users[i].password_hash)
       /\ \E out \in POST_auth_register(users[i].email, password) : out.code = 400

\* C7: registrations with distinct emails get distinct user ids, and the token
\* a registration returned is accepted by get_current_user at every later
\* instant before its expiry, whatever happened in between, and resolves to
\* the record of the user who registered.
C7_FreshIdAndWorkingToken ==
    /\ \A i, j \in 1..Len(users) : users[i].id = users[j].id => i = j
    /\ \A email \in Emails, password \in Passwords :
          \A out \in POST_auth_register(email, password) :
             out.code = 200 =>
                /\ out.body[1].id \notin Ids(users)
                /\ out.body[1].email = email
                /\ out.users = Append(users, Doc(out.users, out.body[1].id))
                /\ UserResponse(Doc(out.users, out.body[1].id)) = out.body[1]
                /\ out.access_token =
                     create_access_token_at(out.body[1].id, out.body[1].created_at)
    /\ \A i \in 1..Len(users) :
          LET token == create_access_token_at(users[i].id, users[i].created_at)
          IN  now < token.exp =>
                 /\ get_current_user(token) =
                      { [code |-> 200, detail |-> "", user |-> Some(users[i])] }
                 /\ \A out \in GET_auth_me(token) :
                       out.code = 200 /\ out.body = <<UserResponse(users[i])>>

\* two users registered at different instants, the token of the second still
\* valid, after other requests changed the store
C7_Witness ==
    \E i, j \in 1..Len(users) :
       /\ users[i].created_at < users[j].created_at
       /\ users[i].email # users[j].email
       /\ users[i].is_premium
       /\ Len(shopping_list) > 0
       /\ now < create_access_token_at(users[j].id, users[j].created_at).exp

\* C8 as stated: every token whose exp is in the past is rejected with
\* "Token expired".
C8_Original ==
    \A token \in Credentials :
       token.exp < now =>
          \A auth \in get_current_user(token) :
             auth.code = 401 /\ auth.detail = "Token expired"

\* C8 amended: a token whose exp is in the past is never accepted: every
\* protected route answers 401 and writes nothing.  The detail is "Token
\* expired" when the token's signature is valid; with an invalid signature it
\* is "Invalid token", since the signature is verified before exp.
C8_ExpiredRejected ==
    \A token \in Credentials :
       token.exp < now =>
          /\ \A auth \in get_current_user(token) :
                /\ auth.code = 401
                /\ auth.user = None
                /\ auth.detail = IF token.key = SECRET_KEY THEN "Token expired"
                                                            ELSE "Invalid token"
          /\ \A out \in Protected(token) :
                /\ out.code = 401
                /\ out.body = <<>>
                /\ NoWrite(out)

\* an expired token of a user who is not premium and owns a shopping item:
\* accepted, it would let upgrade-premium and delete write
C8_Witness ==
    \E token \in Issued, i \in 1..Len(users), j \in 1..Len(shopping_list) :
       /\ token.exp < now
       /\ users[i].id = token.sub /\ ~users[i].is_premium
       /\ shopping_list[j].user_id = token.sub
       /\ \A out \in Protected(token) : out.detail = "Token expired"

\* the caller of this token owns a pantry item with this id
OwnsPantryItem(token, item_id) ==
    \E i \in 1..Len(pantry_items) :
       pantry_items[i].id = item_id /\ pantry_items[i].user_id = token.sub

\* C11: update_pantry_item on an item_id that is in no pantry document, or in
\* a document of another user, is answered 404 "Item not found" and writes
\* nothing: pantry_items and shopping_list are as they were, and no shopping
\* item is added even when the patch's status is "consumed" or "wasted".
C11_UpdateNotFound ==
    \A token \in Issued, item_id \in ItemIds(pantry_items),
       item_update \in PantryPatches :
       ~OwnsPantryItem(token, item_id) =>
          \A out \in PUT_pantry(token, item_id, item_update) :
             /\ out.code = 404
             /\ out.detail = "Item not found"
             /\ out.body = <<>>
             /\ NoWrite(out)

\* another user's pantry item beside a shopping list that is not empty, and
\* "consumed" and "wasted" patches answered 404 both for that item and for
\* an id that no pantry document has
C11_Witness ==
    \E token \in Issued, j \in 1..Len(pantry_items) :
       /\ pantry_items[j].user_id # token.sub
       /\ pantry_items[j].status = "fresh"
       /\ Len(shopping_list) > 0
       /\ \A item_id \in {pantry_items[j].id, nextUuid} :
             \A item_update \in { u \in PantryPatches : MarksUsedUp(u) } :
                \A out \in PUT_pantry(token, item_id, item_update) : out.code = 404

\* coll without its documents of this id, the others in their order
Without(coll, id) ==
    LET Other(d) == d.id # id IN SelectSeq(coll, Other)

\* delete_pantry_item answers for every id: the caller's item goes and nothing
\* else changes; an id the caller does not own is answered 404, nothing removed
C12_DeleteExactly ==
    \A token \in Issued, item_id \in ItemIds(pantry_items) :
       \A out \in DELETE_pantry(token, item_id) :
          IF OwnsPantryItem(token, item_id)
            THEN /\ out.code = 200
                 /\ out.pantry_items = Without(pantry_items, item_id)
                 /\ Len(out.pantry_items) = Len(pantry_items) - 1
                 /\ out.shopping_list = shopping_list
                 /\ out.users = users
            ELSE /\ out.code = 404
                 /\ out.detail = "Item not found"
                 /\ NoWrite(out)

\* an identifier that was issued and is not in pantry_items stays out of it,
\* and out of every list get_pantry_items returns
C12_NeverListedAgain ==
    \A id \in 1..(MaxUuid + 1) :
       (id < nextUuid /\ id \notin Ids(pantry_items)) =>
          /\ id \notin Ids(pantry_items')
          /\ \A token \in Issued' :
                \A out \in GET_pantry(token)' :
                   \A n \in 1..Len(out.body) : out.body[n].id # id

\* C12: delete_pantry_item on an item of the caller removes exactly that
\* pantry item, which is never listed again, and leaves shopping_list as it
\* was, the items auto-created from that pantry item included; on an absent
\* or not-owned id it is answered 404 and removes nothing.
C12_DeleteNoCascade == [] C12_DeleteExactly /\ [][C12_NeverListedAgain]_vars

\* a pantry item was marked used up, which put its name on the shopping list,
\* and then deleted: the shopping item is there, no pantry item is, and a
\* second pantry item was created since
C12_Witness ==
    \E j \in 1..Len(shopping_list), i \in 1..Len(pantry_items) :
       /\ shopping_list[j].item_name = "milk"
       /\ Len(pantry_items) = 1
       /\ pantry_items[i].id > shopping_list[j].id
       /\ pantry_items[i].user_id = shopping_list[j].user_id

\* C15: every pantry item and every shopping-list item has the user_id of a
\* user in users, and the shopping item a pantry update adds has the user_id
\* of the pantry item whose name it copied.
C15_OwnersExist ==
    /\ \A i \in 1..Len(pantry_items) : pantry_items[i].user_id \in Ids(users)
    /\ \A j \in 1..Len(shopping_list) : shopping_list[j].user_id \in Ids(users)
    /\ \A token \in Credentials, item_id \in ItemIds(pantry_items),
          item_update \in PantryPatches :
          \A out \in PUT_pantry(token, item_id, item_update) :
             /\ \A j \in 1..Len(out.shopping_list) :
                   out.shopping_list[j].user_id \in Ids(out.users)
             /\ \A i \in 1..Len(out.pantry_items) :
                   out.pantry_items[i].user_id \in Ids(out.users)
             /\ out.shopping_list # shopping_list =>
                   LET new == out.shopping_list[Len(out.shopping_list)]
                       source == Doc(pantry_items, item_id)
                   IN  /\ new.item_name = source.name
                       /\ new.user_id = source.user_id
                       /\ Doc(out.pantry_items, item_id).user_id = source.user_id

\* two users, a pantry item of the second and the shopping item that marking
\* it used up added
C15_Witness ==
    \E i \in 1..Len(pantry_items), j \in 1..Len(shopping_list) :
       /\ Len(users) = 2
       /\ pantry_items[i].user_id = users[2].id
       /\ pantry_items[i].status \in {"consumed", "wasted"}
       /\ shopping_list[j].item_name = "milk"
       /\ shopping_list[j].user_id = pantry_items[i].user_id

(* ---------------------- properties of user records ------------------- *)

\* upgrade_to_premium sets is_premium of the caller's record, returns that
\* record and changes nothing else
C13_UpgradeSetsPremium ==
    \A token \in Issued, i \in 1..Len(users) :
       users[i].id = token.sub =>
          \A out \in POST_user_upgrade_premium(token) :
             /\ out.code = 200
             /\ out.users = [users EXCEPT ![i].is_premium = TRUE]
             /\ out.body = <<UserResponse([users[i] EXCEPT !.is_premium = TRUE])>>
             /\ out.pantry_items = pantry_items
             /\ out.shopping_list = shopping_list

\* for a user who is premium, upgrade_to_premium changes nothing and returns
\* the record as it is
C13_PremiumStaysPremium ==
    \A token \in Issued, i \in 1..Len(users) :
       (users[i].id = token.sub /\ users[i].is_premium) =>
          \A out \in POST_user_upgrade_premium(token) :
             /\ out.users = users
             /\ out.body = <<UserResponse(users[i])>>

\* after a step that is the upgrade of a user who was not premium, the same
\* call again changes nothing and returns what the first returned
C13_SecondCallSame ==
    (users' # users /\ Len(users') = Len(users)) =>
       \A token \in Issued :
          \A out \in POST_user_upgrade_premium(token) :
             (out.code = 200 /\ Serve(out)) =>
                \A again \in POST_user_upgrade_premium(token)' :
                   /\ again.code = 200
                   /\ again.body = out.body
                   /\ again.users = users'

\* a step keeps every user record, in its place, with its id, email,
\* password_hash and created_at; is_premium changes only from false to true,
\* and only as the upgrade of that user does it
C13_UsersOnlyUpgraded ==
    /\ Len(users') >= Len(users)
    /\ \A i \in 1..Len(users) :
          /\ users'[i] = [users[i] EXCEPT !.is_premium = users'[i].is_premium]
          /\ users[i].is_premium => users'[i].is_premium
          /\ users'[i] # users[i] =>
                users' = update_one(users, [id |-> users[i].id], [is_premium |-> TRUE])

\* C13: upgrade_to_premium is idempotent and is the only mutation of a user
\* record: after one call is_premium is true, a second call leaves the record
\* identical and returns the same result, no operation sets is_premium back
\* to false, and none changes a user's id, email, password_hash or created_at.
C13_UpgradeIdempotent ==
    /\ [] (C13_UpgradeSetsPremium /\ C13_PremiumStaysPremium)
    /\ [][C13_SecondCallSame /\ C13_UsersOnlyUpgraded]_vars

\* a premium user who owns a pantry item beside a user who is not premium:
\* upgrade again for the first leaves users as it is
C13_Witness ==
    \E token \in Issued, i, j \in 1..Len(users), k \in 1..Len(pantry_items) :
       /\ users[i].id = token.sub /\ users[i].is_premium
       /\ ~users[j].is_premium
       /\ pantry_items[k].user_id = token.sub
       /\ \E out \in POST_user_upgrade_premium(token) : out.users = users

(* ---------- SpecC: requests interleaved at their await points --------- *)

\* requests received in one behaviour
MaxReqs == 3

\* A request in flight is a record of reqs: its route and body, the point it
\* has reached (pc), the locals it holds across an await, and its response
\* once it has one (code 0 until then).

\* register up to its first await: find_one has answered (server.py 147)
RegisterFind ==
    \E email \in Emails, password \in Passwords :
       LET ByEmail == [email |-> email]
       IN  /\ Len(reqs) < MaxReqs
           /\ reqs' = Append(reqs, [op |-> "register", email |-> email,
                                    password |-> password, pc |-> "found",
                                    existing_user |-> find_one(users, ByEmail),
                                    code |-> 0, user_id |-> 0])
           /\ UNCHANGED <<users, pantry_items, shopping_list, nextUuid, now, instants,
                          temp_shopping_db, threads, request, response>>

\* register from the lookup's answer to the response (server.py 148-173)
RegisterInsert ==
    \E n \in 1..Len(reqs) :
       /\ reqs[n].op = "register" /\ reqs[n].pc = "found"
       /\ IF reqs[n].existing_user # None
            THEN /\ reqs' = [reqs EXCEPT ![n].pc = "done", ![n].code = 400]
                 /\ UNCHANGED <<users, nextUuid>>
            ELSE /\ nextUuid <= MaxUuid
                 /\ users' = insert_one(users,
                                NewUser(nextUuid, reqs[n].email, reqs[n].password))
                 /\ nextUuid' = nextUuid + 1
                 /\ reqs' = [reqs EXCEPT ![n].pc = "done", ![n].code = 200,
                                         ![n].user_id = nextUuid]
       /\ UNCHANGED <<pantry_items, shopping_list, now, instants,
                      temp_shopping_db, threads, request, response>>

NextC ==
    \/ RegisterFind
    \/ RegisterInsert

SpecC == Init /\ [][NextC]_vars

\* C4: no two user records have the same email, also when register requests
\* for one email interleave between the lookup and the insert.
C4_EmailUnique ==
    \A i, j \in 1..Len(users) : users[i].email = users[j].email => i = j

\* C17: for every register that returned success, a later login with the
\* same email and password succeeds and returns that registration's user id,
\* also when register requests interleaved; a login with an unknown email or
\* a wrong password is answered 401 with the same response in both cases.
C17_RegisterLoginRoundTrip ==
    /\ \A n \in 1..Len(reqs) :
          (reqs[n].op = "register" /\ reqs[n].pc = "done" /\ reqs[n].code = 200) =>
             \A out \in POST_auth_login(reqs[n].email, reqs[n].password) :
                /\ out.code = 200
                /\ out.body[1].id = reqs[n].user_id
                /\ out.access_token.sub = reqs[n].user_id
    /\ \A email \in Emails, password \in Passwords :
          \A out \in POST_auth_login(email, password) :
             out.code # 200 =>
                out = HTTPException(401, "Invalid email or password")

(* ------ SpecU: update_pantry_item interleaved at its await points ----- *)

\* update_pantry_item requests received in one behaviour
MaxUpdates == 1

\* An update_pantry_item request in flight is a record of reqs: the caller,
\* the path parameter and the body, the point it has reached (pc: the await
\* that answered last), the local existing, the id of the shopping item it
\* inserted (0 while it inserted none), and its response once it has one
\* (code 0 until then).  A request that stopped without one has pc "crashed"
\* and at, the point where it stopped.

\* the next await of a request that is past its lookup
NextAwait(req) ==
    IF req.pc = "found" /\ MarksUsedUp(req.item_update) THEN "insert_one"
    ELSE IF req.pc \in {"found", "inserted"} /\ DOMAIN UpdateData(req.item_update) # {}
      THEN "update_one"
    ELSE IF req.pc \in {"found", "inserted", "set"} THEN "find_one"
    ELSE "none"

\* the dependency and the lookup have answered (server.py 250-254)
UpdateFind ==
    \E token \in Issued, item_id \in ItemIds(pantry_items),
       item_update \in PantryPatches :
       \E auth \in get_current_user(token) :
          LET Owned == [id |-> item_id, user_id |-> auth.user[1].id]
              existing == find_one(pantry_items, Owned)
          IN  /\ auth.code = 200
              /\ Len(reqs) < MaxUpdates
              /\ reqs' = Append(reqs,
                     [op |-> "update_pantry_item", user_id |-> auth.user[1].id,
                      item_id |-> item_id, item_update |-> item_update,
                      existing |-> existing,
                      pc |-> IF existing = None THEN "done" ELSE "found",
                      at |-> "", shopping_id |-> 0,
                      code |-> IF existing = None THEN 404 ELSE 0,
                      body |-> <<>>])
              /\ UNCHANGED <<users, pantry_items, shopping_list, nextUuid, now,
                             instants, temp_shopping_db, threads, request, response>>

\* the shopping item is inserted (server.py 257-265)
UpdateInsertShopping ==
    \E n \in 1..Len(reqs) :
       /\ reqs[n].op = "update_pantry_item"
       /\ NextAwait(reqs[n]) = "insert_one"
       /\ nextUuid <= MaxUuid
       /\ shopping_list' = insert_one(shopping_list,
                               NewShoppingItem(nextUuid, reqs[n].user_id,
                                               reqs[n].existing[1].name))
       /\ nextUuid' = nextUuid + 1
       /\ reqs' = [reqs EXCEPT ![n].pc = "inserted", ![n].shopping_id = nextUuid]
       /\ UNCHANGED <<users, pantry_items, now, instants, temp_shopping_db,
                      threads, request, response>>

\* the pantry item is updated, by id alone (server.py 267-268)
UpdateSet ==
    \E n \in 1..Len(reqs) :
       /\ reqs[n].op = "update_pantry_item"
       /\ NextAwait(reqs[n]) = "update_one"
       /\ pantry_items' = update_one(pantry_items, [id |-> reqs[n].item_id],
                                     UpdateData(reqs[n].item_update))
       /\ reqs' = [reqs EXCEPT ![n].pc = "set"]
       /\ UNCHANGED <<users, shopping_list, nextUuid, now, instants,
                      temp_shopping_db, threads, request, response>>

\* the item is read back and returned (server.py 270-271); when it has gone
\* meanwhile, PantryItemResponse(**None) raises and the answer is 500
UpdateRead ==
    \E n \in 1..Len(reqs) :
       LET updated == find_one(pantry_items, [id |-> reqs[n].item_id])
       IN  /\ reqs[n].op = "update_pantry_item"
           /\ NextAwait(reqs[n]) = "find_one"
           /\ reqs' = [reqs EXCEPT
                          ![n].pc = "done",
                          ![n].code = IF updated = None THEN 500 ELSE 200,
                          ![n].body = IF updated = None THEN <<>>
                                      ELSE <<PantryItemResponse(updated[1])>>]
           /\ UNCHANGED <<users, pantry_items, shopping_list, nextUuid, now,
                          instants, temp_shopping_db, threads, request, response>>

\* the process stops while a request waits at an await: the request gets no
\* further, the store keeps what was written
Crash ==
    \E n \in 1..Len(reqs) :
       /\ reqs[n].op = "update_pantry_item"
       /\ reqs[n].pc \in {"found", "inserted", "set"}
       /\ reqs' = [reqs EXCEPT ![n].pc = "crashed", ![n].at = reqs[n].pc]
       /\ UNCHANGED <<users, pantry_items, shopping_list, nextUuid, now,
                      instants, temp_shopping_db, threads, request, response>>

\* register, create_pantry_item and delete_pantry_item have one store write
\* each: they are served whole, between the steps of the updates in flight
NextU ==
    \/ Register
    \/ CreatePantryItem
    \/ DeletePantryItem
    \/ UpdateFind
    \/ UpdateInsertShopping
    \/ UpdateSet
    \/ UpdateRead
    \/ Crash

SpecU == Init /\ [][NextU]_vars

\* the pantry item of this request has the request's patch applied
PatchApplied(req) ==
    \E i \in 1..Len(pantry_items) :
       /\ pantry_items[i].id = req.item_id
       /\ \A f \in DOMAIN UpdateData(req.item_update) :
             pantry_items[i][f] = UpdateData(req.item_update)[f]

\* C14: an update_pantry_item with status "consumed" or "wasted" that stops
\* between its two store writes leaves the pantry item updated and the
\* shopping item missing; a new shopping item beside a pantry item that is
\* not updated yet is never reached.
C14_CrashLeavesPantryUpdated ==
    \A n \in 1..Len(reqs) :
       ( /\ reqs[n].pc = "crashed"
         /\ reqs[n].at = "inserted"
         /\ MarksUsedUp(reqs[n].item_update) ) =>
          /\ reqs[n].shopping_id \notin Ids(shopping_list)
          /\ PatchApplied(reqs[n])

\* C16: update_pantry_item is atomic against concurrent requests: also when
\* a delete_pantry_item of the same item runs between its lookup and its
\* final read, the update ends either with 404 and no shopping item added, or
\* with 200 and the updated item; it ends with no other error, and adds no
\* shopping item for a call that does not return the updated item.
C16_UpdateAtomic ==
    \A n \in 1..Len(reqs) :
       (reqs[n].op = "update_pantry_item" /\ reqs[n].pc = "done") =>
          \/ /\ reqs[n].code = 404
             /\ reqs[n].shopping_id = 0
          \/ /\ reqs[n].code = 200
             /\ Len(reqs[n].body) = 1
             /\ reqs[n].body[1].id = reqs[n].item_id

(* --------- SpecLegacy: the in-memory list of shopping_list.py --------- *)

\* calls of add_item and delete_item in one behaviour
MaxCalls == 4

ItemNames == {"milk", "eggs"}

\* add_item and delete_item are plain functions: the framework runs each call
\* on a pool thread, and threads switch between the membership test and the
\* statement it guards.  A call is a record of threads: its handler and
\* argument, the point it has reached and what the test gave.

\* add_item, the test "item.name not in temp_shopping_db"
AddItemTest ==
    \E name \in ItemNames :
       /\ Len(threads) < MaxCalls
       /\ threads' = Append(threads,
                        [op |-> "add_item", name |-> name, pc |-> "tested",
                         test |-> name \notin Range(temp_shopping_db), code |-> 0])
       /\ UNCHANGED <<temp_shopping_db, dbvars, nextUuid, now, instants, reqs,
                      request, response>>

\* add_item, temp_shopping_db.append(item.name) and the return
AddItemAppend ==
    \E n \in 1..Len(threads) :
       /\ threads[n].op = "add_item" /\ threads[n].pc = "tested"
       /\ temp_shopping_db' = IF threads[n].test
                                THEN Append(temp_shopping_db, threads[n].name)
                                ELSE temp_shopping_db
       /\ threads' = [threads EXCEPT ![n].pc = "done", ![n].code = 200]
       /\ UNCHANGED <<dbvars, nextUuid, now, instants, reqs, request, response>>

\* delete_item, the test "item_name in temp_shopping_db"
DeleteItemTest ==
    \E name \in ItemNames :
       /\ Len(threads) < MaxCalls
       /\ threads' = Append(threads,
                        [op |-> "delete_item", name |-> name, pc |-> "tested",
                         test |-> name \in Range(temp_shopping_db), code |-> 0])
       /\ UNCHANGED <<temp_shopping_db, dbvars, nextUuid, now, instants, reqs,
                      request, response>>

\* list.remove(x): the first element equal to x goes
Remove(list, x) ==
    LET first == CHOOSE i \in 1..Len(list) :
                    list[i] = x /\ \A j \in 1..(i - 1) : list[j] # x
    IN  SubSeq(list, 1, first - 1) \o SubSeq(list, first + 1, Len(list))

\* delete_item, temp_shopping_db.remove(item_name) and the return; remove of
\* a name that has gone meanwhile raises ValueError, answered 500
DeleteItemRemove ==
    \E n \in 1..Len(threads) :
       /\ threads[n].op = "delete_item" /\ threads[n].pc = "tested"
       /\ IF threads[n].test /\ threads[n].name \in Range(temp_shopping_db)
            THEN /\ temp_shopping_db' = Remove(temp_shopping_db, threads[n].name)
                 /\ threads' = [threads EXCEPT ![n].pc = "done", ![n].code = 200]
            ELSE /\ UNCHANGED temp_shopping_db
                 /\ threads' = [threads EXCEPT ![n].pc = "done",
                                  ![n].code = IF threads[n].test THEN 500 ELSE 200]
       /\ UNCHANGED <<dbvars, nextUuid, now, instants, reqs, request, response>>

NextLegacy ==
    \/ AddItemTest
    \/ AddItemAppend
    \/ DeleteItemTest
    \/ DeleteItemRemove

SpecLegacy == Init /\ [][NextLegacy]_vars

\* C9: each name occurs at most once in the legacy list, in every reachable
\* state, also when add_item and delete_item calls interleave between the
\* membership test and the append.
C9_NamesUnique ==
    \A i, j \in 1..Len(temp_shopping_db) :
       temp_shopping_db[i] = temp_shopping_db[j] => i = j

(* ------------- SpecRecipe: the selector of routers/recipes.py --------- *)

\* ingredients in one request
MaxIngredients == 2

\* A str is the sequence of its characters.
UpperCase == <<"A", "B", "C", "D", "E", "F", "G", "H", "I", "J", "K", "L", "M", "N", "O", "P", "Q", "R", "S", "T", "U", "V", "W", "X", "Y", "Z">>
LowerCase == <<"a", "b", "c", "d", "e", "f", "g", "h", "i", "j", "k", "l", "m", "n", "o", "p", "q", "r", "s", "t", "u", "v", "w", "x", "y", "z">>

\* str.lower() on one character, and on a str
lower_char(c) ==
    IF \E i \in 1..Len(UpperCase) : UpperCase[i] = c
      THEN LowerCase[CHOOSE i \in 1..Len(UpperCase) : UpperCase[i] = c]
      ELSE c
lower(str) == [i \in 1..Len(str) |-> lower_char(str[i])]

\* "sub in str"
Contains(sub, str) ==
    \E i \in 1..(Len(str) - Len(sub) + 1) : SubSeq(str, i, i + Len(sub) - 1) = sub

\* any(keyword in item for item in pantry)
AnyHas(keyword, pantry) == \E i \in 1..Len(pantry) : Contains(keyword, pantry[i])

chicken == <<"c", "h", "i", "c", "k", "e", "n">>
pasta == <<"p", "a", "s", "t", "a">>
spaghetti == <<"s", "p", "a", "g", "h", "e", "t", "t", "i">>
tortilla == <<"t", "o", "r", "t", "i", "l", "l", "a">>
bean == <<"b", "e", "a", "n">>
shrimp == <<"s", "h", "r", "i", "m", "p">>
fish == <<"f", "i", "s", "h">>
salmon == <<"s", "a", "l", "m", "o", "n">>

RoastedGarlicChicken ==
    [title |-> "Roasted Garlic Chicken", prep_time |-> "10 mins", cook_time |-> "30 mins"]
PantryPasta ==
    [title |-> "Pantry Pasta Aglio e Olio", prep_time |-> "5 mins", cook_time |-> "10 mins"]
Quesadillas ==
    [title |-> "Quick Pantry Quesadillas", prep_time |-> "5 mins", cook_time |-> "6 mins"]
Seafood ==
    [title |-> "Lemon Garlic Butter Seafood", prep_time |-> "5 mins", cook_time |-> "8 mins"]
GardenScramble ==
    [title |-> "FreshKeep Garden Scramble", prep_time |-> "5 mins", cook_time |-> "5 mins"]

\* the slip of testing the pasta rule before the chicken rule
generate_recipe_pasta_first(ingredients) ==
    LET pantry == [i \in 1..Len(ingredients) |-> lower(ingredients[i])]
    IN  IF AnyHas(pasta, pantry) \/ AnyHas(spaghetti, pantry) THEN PantryPasta
        ELSE IF AnyHas(chicken, pantry) THEN RoastedGarlicChicken
        ELSE IF AnyHas(tortilla, pantry) \/ AnyHas(bean, pantry) THEN Quesadillas
        ELSE IF AnyHas(shrimp, pantry) \/ AnyHas(fish, pantry) \/ AnyHas(salmon, pantry)
          THEN Seafood
        ELSE GardenScramble

generate_recipe(ingredients) ==
    LET pantry == [i \in 1..Len(ingredients) |-> lower(ingredients[i])]
    IN  IF AnyHas(chicken, pantry) THEN RoastedGarlicChicken
        ELSE IF AnyHas(pasta, pantry) \/ AnyHas(spaghetti, pantry) THEN PantryPasta
        ELSE IF AnyHas(tortilla, pantry) \/ AnyHas(bean, pantry) THEN Quesadillas
        ELSE IF AnyHas(shrimp, pantry) \/ AnyHas(fish, pantry) \/ AnyHas(salmon, pantry)
          THEN Seafood
        ELSE GardenScramble

\* ingredients a request may name
ChickenBreast == <<"C", "h", "i", "c", "k", "e", "n", " ", "B", "r", "e", "a", "s", "t">>
Ingredients ==
    { ChickenBreast,
      <<"c", "h", "i", "c", "k", "e", "n", "s", "t", "o", "c", "k">>,
      <<"p", "a", "s", "t", "a">>,
      <<"S", "P", "A", "G", "H", "E", "T", "T", "I">>,
      <<"t", "o", "r", "t", "i", "l", "l", "a", "s">>,
      <<"b", "l", "a", "c", "k", " ", "b", "e", "a", "n", "s">>,
      <<"S", "h", "r", "i", "m", "p">>,
      <<"c", "a", "t", "f", "i", "s", "h">>,
      <<"s", "a", "l", "m", "o", "n">>,
      <<"r", "i", "c", "e">>,
      <<"c", "h", "i", "c", "k", " ", "p", "e", "a", "s">>,
      <<>> }

IngredientLists == UNION { [1..n -> Ingredients] : n \in 0..MaxIngredients }

\* a request to POST /api/recipes/generate has arrived: the handler keeps no
\* state, so one request shows what every request gets
InitRecipe ==
    /\ InitDb
    /\ reqs = <<>>
    /\ temp_shopping_db = <<>>
    /\ threads = <<>>
    /\ request \in { <<ingredients>> : ingredients \in IngredientLists }
    /\ response = <<>>

\* POST /api/recipes/generate
GenerateRecipe ==
    /\ response = <<>>
    /\ response' = <<generate_recipe(request[1])>>
    /\ UNCHANGED <<request, dbvars, nextUuid, now, instants, reqs, temp_shopping_db,
                   threads>>

NextRecipe == GenerateRecipe

SpecRecipe == InitRecipe /\ [][NextRecipe]_vars

\* the rules in their order: the keywords of each and its recipe
Rules ==
    << [keywords |-> {chicken}, recipe |-> RoastedGarlicChicken],
       [keywords |-> {pasta, spaghetti}, recipe |-> PantryPasta],
       [keywords |-> {tortilla, bean}, recipe |-> Quesadillas],
       [keywords |-> {shrimp, fish, salmon}, recipe |-> Seafood] >>

\* rule r matches: a keyword of it is in some ingredient, lowercased
Matches(r, ingredients) ==
    \E keyword \in Rules[r].keywords, i \in 1..Len(ingredients) :
       Contains(keyword, lower(ingredients[i]))

Reverse(seq) == [i \in 1..Len(seq) |-> seq[Len(seq) + 1 - i]]

\* C6: the recipe returned is that of the first rule, in the order chicken;
\* pasta or spaghetti; tortilla or bean; shrimp, fish or salmon, with a keyword
\* contained in some lowercased ingredient, and Garden Scramble when no rule
\* matches (the empty list too); the order of the ingredients does not matter.
C6_FirstMatchingRule ==
    response # <<>> =>
       LET ingredients == request[1]
           matching == { r \in 1..Len(Rules) : Matches(r, ingredients) }
       IN  /\ response[1] = IF matching = {} THEN GardenScramble
                            ELSE Rules[Min(matching)].recipe
           /\ generate_recipe(Reverse(ingredients)) = response[1]
           /\ (\E i \in 1..Len(ingredients) : ingredients[i] = ChickenBreast)
                 => response[1].title = "Roasted Garlic Chicken"

\* a request naming pasta before "Chicken Breast" got the chicken recipe
C6_Witness ==
    /\ response # <<>>
    /\ Len(request[1]) = 2
    /\ request[1][1] = pasta
    /\ request[1][2] = ChickenBreast
    /\ response[1].title = "Roasted Garlic Chicken"

====
